---- MODULE Spec2Model ----
(***************************************************************************)
(* A model of protour (src/main.rs): the parsing of deck texts into Deck   *)
(* values, the normalisation of a game record into directional matchups,   *)
(* and the aggregation of the matchups into the win/loss table.            *)
(*                                                                         *)
(* A Rust string is modelled as the sequence of its characters, each       *)
(* character a one-character TLA+ string, so that splitting, case          *)
(* conversion and token comparison are computed rather than assumed.       *)
(***************************************************************************)
EXTENDS Integers, Sequences, FiniteSets, TLC

VARIABLES pc, games, gi, stage, vec, mi, table, obs, out, input, op, result

vars == <<pc, games, gi, stage, vec, mi, table, obs, out, input, op, result>>

(***************************************************************************)
(* Bounds of the model.                                                    *)
(***************************************************************************)
\* the number of rows the reader yields before the end of the file
MaxGames == 2
\* the number of spaces put before and after a text handed to a parser
MaxPad == 1

(***************************************************************************)
(* Characters and strings.                                                 *)
(***************************************************************************)
LowerLetters ==
    <<"a", "b", "c", "d", "e", "f", "g", "h", "i", "j", "k", "l", "m", "n", "o", "p", "q", "r", "s", "t", "u", "v", "w", "x", "y", "z">>

UpperLetters ==
    <<"A", "B", "C", "D", "E", "F", "G", "H", "I", "J", "K", "L", "M", "N", "O", "P", "Q", "R", "S", "T", "U", "V", "W", "X", "Y", "Z">>

IndexIn(letters, ch) == CHOOSE i \in 1..Len(letters) : letters[i] = ch

\* char::to_uppercase on the ASCII range: a letter a..z maps to A..Z, every
\* other character is left as it is.
CharToUpper(ch) ==
    IF \E i \in 1..Len(LowerLetters) : LowerLetters[i] = ch
    THEN UpperLetters[IndexIn(LowerLetters, ch)]
    ELSE ch

CharToLower(ch) ==
    IF \E i \in 1..Len(UpperLetters) : UpperLetters[i] = ch
    THEN LowerLetters[IndexIn(UpperLetters, ch)]
    ELSE ch

\* str::to_uppercase
ToUppercase(s) == [i \in 1..Len(s) |-> CharToUpper(s[i])]

ToLowercase(s) == [i \in 1..Len(s) |-> CharToLower(s[i])]

HasSpace(s) == \E i \in 1..Len(s) : s[i] = " "

FirstSpace(s) == CHOOSE i \in 1..Len(s) : s[i] = " " /\ \A j \in 1..(i - 1) : s[j] # " "

\* s.split(' '): the pieces between single spaces, empty pieces included; the
\* empty string gives one empty piece.
RECURSIVE Split(_)
Split(s) ==
    IF HasSpace(s)
    THEN <<SubSeq(s, 1, FirstSpace(s) - 1)>> \o Split(SubSeq(s, FirstSpace(s) + 1, Len(s)))
    ELSE <<s>>

\* parts.next().unwrap_or("") for the n-th call of next() on the iterator
NextOrEmpty(parts, n) == IF n <= Len(parts) THEN parts[n] ELSE <<>>

(***************************************************************************)
(* Result values: Ok(v) and Err(e).                                        *)
(***************************************************************************)
Ok(v) == [ok |-> TRUE, val |-> <<v>>, err |-> "none"]

Err(e) == [ok |-> FALSE, val |-> <<>>, err |-> e]

Unwrap(r) == r.val[1]

(***************************************************************************)
(* The identity model: ColorIdentity and Archetype.                        *)
(***************************************************************************)
ColorIdentity ==
    {"White", "Black", "Red", "Green", "Blue", "Uw",
     "Ub", "Ur", "Ug", "Rg", "Rw", "Rb",
     "Gw", "Gb", "Bw", "Naya", "Grixis", "Esper",
     "Bant", "Jund", "Abzan", "Jeskai", "Sultai", "Mardu",
     "Temur", "FourColor", "FiveColor"}

\* the text strum derives for each variant (Display, and the only text
\* EnumString accepts): the variant's name, or its serialize attribute
ColorSerialize(c) ==
    CASE c = "White" -> <<"W", "h", "i", "t", "e">>
      [] c = "Black" -> <<"B", "l", "a", "c", "k">>
      [] c = "Red" -> <<"R", "e", "d">>
      [] c = "Green" -> <<"G", "r", "e", "e", "n">>
      [] c = "Blue" -> <<"B", "l", "u", "e">>
      [] c = "Uw" -> <<"U", "w">>
      [] c = "Ub" -> <<"U", "b">>
      [] c = "Ur" -> <<"U", "r">>
      [] c = "Ug" -> <<"U", "g">>
      [] c = "Rg" -> <<"R", "g">>
      [] c = "Rw" -> <<"R", "w">>
      [] c = "Rb" -> <<"R", "b">>
      [] c = "Gw" -> <<"G", "w">>
      [] c = "Gb" -> <<"G", "b">>
      [] c = "Bw" -> <<"B", "w">>
      [] c = "Naya" -> <<"N", "a", "y", "a">>
      [] c = "Grixis" -> <<"G", "r", "i", "x", "i", "s">>
      [] c = "Esper" -> <<"E", "s", "p", "e", "r">>
      [] c = "Bant" -> <<"B", "a", "n", "t">>
      [] c = "Jund" -> <<"J", "u", "n", "d">>
      [] c = "Abzan" -> <<"A", "b", "z", "a", "n">>
      [] c = "Jeskai" -> <<"J", "e", "s", "k", "a", "i">>
      [] c = "Sultai" -> <<"S", "u", "l", "t", "a", "i">>
      [] c = "Mardu" -> <<"M", "a", "r", "d", "u">>
      [] c = "Temur" -> <<"T", "e", "m", "u", "r">>
      [] c = "FourColor" -> <<"4", "c">>
      [] c = "FiveColor" -> <<"5", "c">>

\* ColorIdentity::from_str, derived by strum_macros::EnumString without
\* ascii_case_insensitive: the text must be a variant's text exactly.
ColorIdentityFromStr(s) ==
    IF \E c \in ColorIdentity : ColorSerialize(c) = s
    THEN Ok(CHOOSE c \in ColorIdentity : ColorSerialize(c) = s)
    ELSE Err("StrumError")

Archetype ==
    {"Aggro", "Midrange", "Combo", "Legends", "Toxic", "Atraxa", "Tempo",
     "Vehicles", "Domain"}

\* the label strum_macros::Display prints for each archetype
ArchetypeLabel(a) ==
    CASE a = "Aggro" -> <<"A", "g", "g", "r", "o">>
      [] a = "Midrange" -> <<"M", "i", "d", "r", "a", "n", "g", "e">>
      [] a = "Combo" -> <<"C", "o", "m", "b", "o">>
      [] a = "Legends" -> <<"L", "e", "g", "e", "n", "d", "s">>
      [] a = "Toxic" -> <<"T", "o", "x", "i", "c">>
      [] a = "Atraxa" -> <<"A", "t", "r", "a", "x", "a">>
      [] a = "Tempo" -> <<"T", "e", "m", "p", "o">>
      [] a = "Vehicles" -> <<"V", "e", "h", "i", "c", "l", "e", "s">>
      [] a = "Domain" -> <<"D", "o", "m", "a", "i", "n">>

\* Archetype::from_str: the match on s.to_uppercase()
ArchetypeFromStr(s) ==
    LET u == ToUppercase(s)
    IN  CASE u = <<"A", "G", "G", "R", "O">> -> Ok("Aggro")
         [] u = <<"M", "I", "D", "R", "A", "N", "G", "E">> -> Ok("Midrange")
         [] u = <<"C", "O", "M", "B", "O">> -> Ok("Combo")
         [] u = <<"L", "E", "G", "E", "N", "D", "S">> -> Ok("Legends")
         [] u = <<"T", "O", "X", "I", "C">> -> Ok("Toxic")
         [] u = <<"A", "T", "R", "A", "X", "A">> -> Ok("Atraxa")
         [] u = <<"T", "E", "M", "P", "O">> -> Ok("Tempo")
         [] OTHER -> Ok("Midrange")

(***************************************************************************)
(* Deck.                                                                   *)
(***************************************************************************)
None == <<>>

Some(v) == <<v>>

\* Deck::new: archetype.unwrap_or(Archetype::Midrange)
DeckNew(color_id, archetype) ==
    [color_id |-> color_id,
     archetype |-> IF archetype = None THEN "Midrange" ELSE archetype[1]]

\* faulty variant of Deck::from_str: the archetype parsed as strictly as the
\* color, a token that is the label of no archetype failing the parse
DeckFromStrStrictArchetype(s) ==
    LET parts == Split(s)
        color_id == ColorIdentityFromStr(NextOrEmpty(parts, 1))
        token == NextOrEmpty(parts, 2)
    IN  IF ~color_id.ok THEN Err(color_id.err)
        ELSE IF \A a \in Archetype : ToUppercase(token) # ToUppercase(ArchetypeLabel(a))
        THEN Err("Archetype")
        ELSE Ok([color_id |-> Unwrap(color_id),
                 archetype |-> Unwrap(ArchetypeFromStr(token))])

\* Deck::from_str: the color is the first piece and its failure is the
\* failure of the parse (the ? operator); the archetype is the second piece.
DeckFromStr(s) ==
    LET parts == Split(s)
        color_id == ColorIdentityFromStr(NextOrEmpty(parts, 1))
        archetype == ArchetypeFromStr(NextOrEmpty(parts, 2))
    IN  IF ~color_id.ok THEN Err(color_id.err)
        ELSE IF ~archetype.ok THEN Err(archetype.err)
        ELSE Ok([color_id |-> Unwrap(color_id), archetype |-> Unwrap(archetype)])

(***************************************************************************)
(* GameLog and Matchup.  Of a GameLog the model keeps the fields that      *)
(* matchups() reads: deck, won, lost and opp_deck.                         *)
(***************************************************************************)
\* Matchup::new
MatchupNew(deck, opponent) ==
    [deck |-> deck, opponent |-> opponent, win |-> 0, loss |-> 0]

\* Matchup::key
Key(m) == <<m.deck, m.opponent>>

\* faulty variant of Matchup::complement: the decks exchanged, the counts not
ComplementKeepsCounts(m) ==
    [deck |-> m.opponent, opponent |-> m.deck, win |-> m.win, loss |-> m.loss]

\* Matchup::complement
Complement(m) ==
    [deck |-> m.opponent, opponent |-> m.deck, win |-> m.loss, loss |-> m.win]

\* faulty variant of Matchup::add: = written for +=
MatchupAddAssigns(self, other) ==
    IF <<self.deck, self.opponent>> = <<other.deck, other.opponent>>
    THEN [ok |-> TRUE,
          self |-> [self EXCEPT !.win = other.win, !.loss = other.loss]]
    ELSE [ok |-> FALSE, self |-> self]

\* Matchup::add: self after the call, and whether the call returned Ok.  The
\* counters are u32; the model's runs stay far below 2^32 observations.
MatchupAdd(self, other) ==
    IF Key(self) = Key(other)
    THEN [ok |-> TRUE,
          self |-> [self EXCEPT !.win = @ + other.win, !.loss = @ + other.loss]]
    ELSE [ok |-> FALSE, self |-> self]

\* faulty variant of GameLog::matchups: a text that fails to parse replaced
\* by a default deck instead of ending the normalisation
MatchupsDefaultDeck(game) ==
    LET deck == DeckFromStr(game.deck)
        opponent == DeckFromStr(game.opp_deck)
        fallback == [color_id |-> "White", archetype |-> "Midrange"]
        matchup == [deck |-> IF deck.ok THEN Unwrap(deck) ELSE fallback,
                    opponent |-> IF opponent.ok THEN Unwrap(opponent) ELSE fallback,
                    win |-> IF game.won > game.lost THEN 1 ELSE 0,
                    loss |-> IF game.won > game.lost THEN 0 ELSE 1]
    IN  <<Complement(matchup), matchup>>

\* faulty variant of GameLog::matchups: the matchup pushed twice, its
\* complement never
MatchupsNoComplement(game) ==
    LET deck == DeckFromStr(game.deck)
        opponent == DeckFromStr(game.opp_deck)
    IN  IF deck.ok /\ opponent.ok
        THEN LET matchup == [deck |-> Unwrap(deck),
                             opponent |-> Unwrap(opponent),
                             win |-> IF game.won > game.lost THEN 1 ELSE 0,
                             loss |-> IF game.won > game.lost THEN 0 ELSE 1]
             IN  <<matchup, matchup>>
        ELSE <<>>

\* GameLog::matchups
Matchups(game) ==
    LET deck == DeckFromStr(game.deck)
        opponent == DeckFromStr(game.opp_deck)
        player_won == game.won > game.lost
    IN  IF deck.ok /\ opponent.ok
        THEN LET matchup == [deck |-> Unwrap(deck),
                             opponent |-> Unwrap(opponent),
                             win |-> IF player_won THEN 1 ELSE 0,
                             loss |-> IF player_won THEN 0 ELSE 1]
             IN  <<Complement(matchup), matchup>>
        ELSE <<>>

(***************************************************************************)
(* The aggregate table: a function from the keys present to their Matchup. *)
(***************************************************************************)
EmptyTable == [k \in {} |-> MatchupNew("none", "none")]

\* faulty variant of the or_insert: the new entry a copy of the matchup
\* instead of a zeroed one
EntryOrInsertCopy(tbl, matchup) ==
    IF <<matchup.deck, matchup.opponent>> \in DOMAIN tbl
    THEN tbl
    ELSE [k \in DOMAIN tbl \cup {<<matchup.deck, matchup.opponent>>} |->
            IF k = <<matchup.deck, matchup.opponent>> THEN matchup ELSE tbl[k]]

\* matchups.entry(matchup.key()).or_insert(Matchup::new(deck, opponent))
EntryOrInsert(tbl, matchup) ==
    IF Key(matchup) \in DOMAIN tbl
    THEN tbl
    ELSE [k \in DOMAIN tbl \cup {Key(matchup)} |->
            IF k = Key(matchup)
            THEN MatchupNew(matchup.deck, matchup.opponent)
            ELSE tbl[k]]

\* the closure run for each matchup of a game: find or create the entry, add
\* the matchup to it; a failed add is reported and leaves the entry as it was
Observe(tbl, matchup) ==
    LET entries == EntryOrInsert(tbl, matchup)
        added == MatchupAdd(entries[Key(matchup)], matchup)
    IN  [k \in DOMAIN entries |->
            IF k = Key(matchup) THEN added.self ELSE entries[k]]

RECURSIVE SumWins(_, _)
SumWins(tbl, keys) ==
    IF keys = {} THEN 0
    ELSE LET k == CHOOSE x \in keys : TRUE
         IN  tbl[k].win + SumWins(tbl, keys \ {k})

RECURSIVE SumLosses(_, _)
SumLosses(tbl, keys) ==
    IF keys = {} THEN 0
    ELSE LET k == CHOOSE x \in keys : TRUE
         IN  tbl[k].loss + SumLosses(tbl, keys \ {k})

\* faulty variant of deck_record: the filter on the key's first component
\* left out
DeckRecordUnfiltered(tbl, deck) ==
    [deck |-> deck,
     wins |-> SumWins(tbl, DOMAIN tbl),
     losses |-> SumLosses(tbl, DOMAIN tbl)]

\* deck_record: the (wins, losses) it prints, folded over the entries whose
\* key's first component is the deck
DeckRecord(tbl, deck) ==
    LET mine == {k \in DOMAIN tbl : k[1] = deck}
    IN  [deck |-> deck, wins |-> SumWins(tbl, mine), losses |-> SumLosses(tbl, mine)]

\* the four decks main() reports on
ReportedDecks ==
    <<DeckNew("White", None), DeckNew("Rb", None), DeckNew("Grixis", None),
      DeckNew("FiveColor", Some("Atraxa"))>>

(***************************************************************************)
(* The rows the reader can yield.                                          *)
(***************************************************************************)
WhiteAggroText == <<"W", "h", "i", "t", "e", " ", "A", "g", "g", "r", "o">>

RbMidrangeText == <<"R", "b", " ", "M", "i", "d", "r", "a", "n", "g", "e">>

ZzFooText == <<"Z", "z", " ", "F", "o", "o">>

RowDeckTexts == {WhiteAggroText, RbMidrangeText, ZzFooText}

\* (won, lost): a win by more than one game, a tie, a loss by more than one
RowScores == {<<3, 1>>, <<1, 1>>, <<0, 2>>}

GameLogs ==
    {[deck |-> d, won |-> s[1], lost |-> s[2], opp_deck |-> o] :
        d \in RowDeckTexts, s \in RowScores, o \in RowDeckTexts}

(***************************************************************************)
(* main(): read every row, aggregate, report.                              *)
(***************************************************************************)
Init ==
    /\ pc = "read"
    /\ games = <<>>
    /\ gi = 1
    /\ stage = "idle"
    /\ vec = <<>>
    /\ mi = 1
    /\ table = EmptyTable
    /\ obs = <<>>
    /\ out = <<>>
    /\ input = <<>>
    /\ op = "none"
    /\ result = <<>>

\* for row in rdr.deserialize(): games.push(row?)
ReadRow ==
    /\ pc = "read"
    /\ Len(games) < MaxGames
    /\ \E game \in GameLogs : games' = Append(games, game)
    /\ UNCHANGED <<pc, gi, stage, vec, mi, table, obs, out, input, op, result>>

\* Reader::from_path(..)? or row? returns the error: main ends before aggregating
ReadError ==
    /\ pc = "read"
    /\ pc' = "aborted"
    /\ UNCHANGED <<games, gi, stage, vec, mi, table, obs, out, input, op, result>>

\* the reader is exhausted: the aggregation starts on the first game
EndOfInput ==
    /\ pc = "read"
    /\ pc' = "aggregate"
    /\ UNCHANGED <<games, gi, stage, vec, mi, table, obs, out, input, op, result>>

\* games.iter().for_each(|game| game.matchups()...): the call of matchups()
\* for the next game, with its "bad game log record" line when it is empty
BeginGame ==
    /\ pc = "aggregate"
    /\ stage = "idle"
    /\ gi <= Len(games)
    /\ vec' = Matchups(games[gi])
    /\ mi' = 1
    /\ stage' = "iter"
    /\ out' = IF Matchups(games[gi]) = <<>>
              THEN Append(out, <<"bad game log record", games[gi]>>)
              ELSE out
    /\ UNCHANGED <<pc, games, gi, table, obs, input, op, result>>

\* the inner closure for the next matchup of the game; obs is the history of
\* the matchups handed to it
ObserveMatchup ==
    /\ pc = "aggregate"
    /\ stage = "iter"
    /\ mi <= Len(vec)
    /\ table' = Observe(table, vec[mi])
    /\ obs' = Append(obs, vec[mi])
    /\ mi' = mi + 1
    /\ UNCHANGED <<pc, games, gi, stage, vec, out, input, op, result>>

\* the game's matchups are exhausted: on to the next game
EndGame ==
    /\ pc = "aggregate"
    /\ stage = "iter"
    /\ mi > Len(vec)
    /\ gi' = gi + 1
    /\ stage' = "idle"
    /\ vec' = <<>>
    /\ mi' = 1
    /\ UNCHANGED <<pc, games, table, obs, out, input, op, result>>

\* every game has been aggregated
EndAggregation ==
    /\ pc = "aggregate"
    /\ stage = "idle"
    /\ gi > Len(games)
    /\ pc' = "report"
    /\ UNCHANGED <<games, gi, stage, vec, mi, table, obs, out, input, op, result>>

\* the four deck_record calls of main()
ReportDecks ==
    /\ pc = "report"
    /\ out' = out \o [i \in 1..Len(ReportedDecks) |-> DeckRecord(table, ReportedDecks[i])]
    /\ pc' = "done"
    /\ UNCHANGED <<games, gi, stage, vec, mi, table, obs, input, op, result>>

Next ==
    \/ ReadRow
    \/ ReadError
    \/ EndOfInput
    \/ BeginGame
    \/ ObserveMatchup
    \/ EndGame
    \/ EndAggregation
    \/ ReportDecks

Spec == Init /\ [][Next]_vars

(***************************************************************************)
(* The parsers on their own: one text, handed to one of the three          *)
(* from_str functions.                                                     *)
(***************************************************************************)
Pad(n) == [i \in 1..n |-> " "]

CaseVariants(s) == {s, ToUppercase(s), ToLowercase(s)}

\* every color text in three letter cases, a text of no color, the empty text
ColorTokens ==
    UNION {CaseVariants(ColorSerialize(c)) : c \in ColorIdentity}
        \cup {<<"Z", "z">>, <<>>}

\* every archetype label in three letter cases, and a label of no archetype
ArchetypeTokens ==
    UNION {CaseVariants(ArchetypeLabel(a)) : a \in Archetype}
        \cup {<<"F", "o", "o">>}

\* "<color>" and "<color> <archetype>"
DeckTexts ==
    ColorTokens \cup {c \o <<" ">> \o a : c \in ColorTokens, a \in ArchetypeTokens}

ParseInputs ==
    {Pad(l) \o s \o Pad(t) :
        l \in 0..MaxPad, t \in 0..MaxPad, s \in DeckTexts \cup ArchetypeTokens}

InitParse ==
    /\ pc = "parse"
    /\ input \in ParseInputs
    /\ op = "none"
    /\ result = <<>>
    /\ games = <<>>
    /\ gi = 1
    /\ stage = "idle"
    /\ vec = <<>>
    /\ mi = 1
    /\ table = EmptyTable
    /\ obs = <<>>
    /\ out = <<>>

ParseColor ==
    /\ pc = "parse"
    /\ op = "none"
    /\ op' = "color"
    /\ result' = ColorIdentityFromStr(input)
    /\ UNCHANGED <<pc, games, gi, stage, vec, mi, table, obs, out, input>>

ParseArchetype ==
    /\ pc = "parse"
    /\ op = "none"
    /\ op' = "archetype"
    /\ result' = ArchetypeFromStr(input)
    /\ UNCHANGED <<pc, games, gi, stage, vec, mi, table, obs, out, input>>

ParseDeck ==
    /\ pc = "parse"
    /\ op = "none"
    /\ op' = "deck"
    /\ result' = DeckFromStr(input)
    /\ UNCHANGED <<pc, games, gi, stage, vec, mi, table, obs, out, input>>

NextParse ==
    \/ ParseColor
    \/ ParseArchetype
    \/ ParseDeck

SpecParse == InitParse /\ [][NextParse]_vars

(***************************************************************************)
(* Vocabulary of the properties.                                           *)
(***************************************************************************)
Parses(text) == DeckFromStr(text).ok

BadRecord(game) == ~Parses(game.deck) \/ ~Parses(game.opp_deck)

\* the owner's matchup of a record whose two texts parse, as the
\* specification words it
OwnerMatchup(game) ==
    [deck |-> Unwrap(DeckFromStr(game.deck)),
     opponent |-> Unwrap(DeckFromStr(game.opp_deck)),
     win |-> IF game.won > game.lost THEN 1 ELSE 0,
     loss |-> IF game.won <= game.lost THEN 1 ELSE 0]

OpponentMatchup(game) ==
    [deck |-> Unwrap(DeckFromStr(game.opp_deck)),
     opponent |-> Unwrap(DeckFromStr(game.deck)),
     win |-> OwnerMatchup(game).loss,
     loss |-> OwnerMatchup(game).win]

\* the records among the first n that normalise
GoodRecords(n) == {i \in 1..n : ~BadRecord(games[i])}

Aggregating == pc \in {"aggregate", "report", "done"}

Finished == pc \in {"report", "done"}

RECURSIVE ObservedWins(_, _)
ObservedWins(seq, k) ==
    IF seq = <<>> THEN 0
    ELSE (IF Key(Head(seq)) = k THEN Head(seq).win ELSE 0) + ObservedWins(Tail(seq), k)

RECURSIVE ObservedLosses(_, _)
ObservedLosses(seq, k) ==
    IF seq = <<>> THEN 0
    ELSE (IF Key(Head(seq)) = k THEN Head(seq).loss ELSE 0) + ObservedLosses(Tail(seq), k)

\* the table the aggregation builds from a sequence of observations
RECURSIVE AggregateAll(_, _)
AggregateAll(tbl, seq) ==
    IF seq = <<>> THEN tbl
    ELSE AggregateAll(Observe(tbl, Head(seq)), Tail(seq))

Reverse(seq) == [i \in 1..Len(seq) |-> seq[Len(seq) + 1 - i]]

SwapFirstTwo(seq) ==
    IF Len(seq) < 2 THEN seq
    ELSE <<seq[2], seq[1]>> \o SubSeq(seq, 3, Len(seq))

KnownDecks(tbl) == {k[1] : k \in DOMAIN tbl}

RECURSIVE FieldTotal(_, _)
FieldTotal(tbl, decks) ==
    IF decks = {} THEN 0
    ELSE LET d == CHOOSE x \in decks : TRUE
         IN  DeckRecord(tbl, d).wins + DeckRecord(tbl, d).losses
                + FieldTotal(tbl, decks \ {d})

\* the color token of a deck text: the text before its first space
ColorTokenOf(text) ==
    IF HasSpace(text) THEN SubSeq(text, 1, FirstSpace(text) - 1) ELSE text

AfterFirstSpace(text) == SubSeq(text, FirstSpace(text) + 1, Len(text))

ArchetypeTokenAbsent(text) == ~HasSpace(text)

\* the archetype token of a deck text that has one: the text between its
\* first space and the next
ArchetypeTokenOf(text) == ColorTokenOf(AfterFirstSpace(text))

ValidColorToken(tok) == \E c \in ColorIdentity : ColorSerialize(c) = tok

ColorOfToken(tok) == CHOOSE c \in ColorIdentity : ColorSerialize(c) = tok

\* tok is, in some letter case, the text of color c / the label of archetype a
SameLetters(s, t) == ToUppercase(s) = ToUppercase(t)

LabelOfNoArchetype(tok) == \A a \in Archetype : ~SameLetters(tok, ArchetypeLabel(a))

RECURSIVE TrimStart(_)
TrimStart(s) ==
    IF s # <<>> /\ Head(s) = " " THEN TrimStart(Tail(s)) ELSE s

Trim(s) == Reverse(TrimStart(Reverse(TrimStart(s))))

(***************************************************************************)
(* The properties.                                                         *)
(***************************************************************************)

\* C1: when both deck texts of the record being normalised parse, matchups()
\* has returned exactly two matchups: the owner's {deck = own, opponent = opp}
\* with (win, loss) = (1, 0) when won > lost and (0, 1) when won <= lost, and
\* its complement {deck = opp, opponent = own} with win and loss swapped; no
\* count is above 1 however large won and lost are.
C1_TwoMatchupsPerGoodRecord ==
    (pc = "aggregate" /\ stage = "iter" /\ ~BadRecord(games[gi])) =>
        /\ Len(vec) = 2
        /\ {vec[1], vec[2]} = {OwnerMatchup(games[gi]), OpponentMatchup(games[gi])}
        /\ vec[1] # vec[2]
        /\ \A j \in 1..2 : vec[j].win + vec[j].loss = 1

\* C1 witness: a tie (won = lost >= 1) between two parsed decks has been
\* normalised and the owner's matchup records a loss.
C1_Witness ==
    /\ pc = "aggregate" /\ stage = "iter" /\ ~BadRecord(games[gi])
    /\ games[gi].won = games[gi].lost /\ games[gi].won >= 1
    /\ Len(vec) = 2
    /\ \E j \in 1..2 : vec[j] = [OwnerMatchup(games[gi]) EXCEPT !.win = 0, !.loss = 1]

\* C2: a record one of whose deck texts fails to parse yields no matchup at
\* all, no step taken while it is the current record changes the table, and
\* the run goes on: when the aggregation has finished every record has been
\* visited and every record that parses, those after a bad one included, has
\* its two matchups in the table.
C2_BadRecordSkipped ==
    /\ [][(pc = "aggregate" /\ gi <= Len(games) /\ BadRecord(games[gi])) =>
            /\ table' = table
            /\ obs' = obs
            /\ vec' = <<>>
            /\ pc' = "aggregate"
            /\ gi' \in {gi, gi + 1}]_vars
    /\ [](Finished =>
            /\ gi = Len(games) + 1
            /\ Len(obs) = 2 * Cardinality(GoodRecords(Len(games)))
            /\ \A i \in GoodRecords(Len(games)) :
                  /\ Key(OwnerMatchup(games[i])) \in DOMAIN table
                  /\ Key(OpponentMatchup(games[i])) \in DOMAIN table
                  /\ \E j \in 1..Len(obs) : obs[j] = OwnerMatchup(games[i]))

\* C2 witness: the run has finished on an input whose first record is bad and
\* whose second record parses, and the table holds the second record only.
C2_Witness ==
    /\ pc = "done"
    /\ Len(games) = 2
    /\ BadRecord(games[1]) /\ ~BadRecord(games[2])
    /\ Len(obs) = 2
    /\ Key(OwnerMatchup(games[2])) \in DOMAIN table

\* C3: at every point of the aggregation the table has exactly the keys
\* observed so far and each entry's win and loss are the sums of the win and
\* loss of the observations with its key; between games the table is also the
\* one the same observations give in reversed order and with the first two
\* exchanged, and observing them all a second time doubles every count.
C3_TableIsSumOfObservations ==
    /\ DOMAIN table = {Key(obs[j]) : j \in 1..Len(obs)}
    /\ \A k \in DOMAIN table :
          /\ Key(table[k]) = k
          /\ table[k].win = ObservedWins(obs, k)
          /\ table[k].loss = ObservedLosses(obs, k)
    /\ stage = "idle" =>
          /\ AggregateAll(EmptyTable, Reverse(obs)) = table
          /\ AggregateAll(EmptyTable, SwapFirstTwo(obs)) = table
          /\ DOMAIN AggregateAll(table, obs) = DOMAIN table
          /\ \A k \in DOMAIN table :
                /\ AggregateAll(table, obs)[k].win = 2 * table[k].win
                /\ AggregateAll(table, obs)[k].loss = 2 * table[k].loss

\* C3 witness: the run has finished and the same matchup was observed twice
\* (an entry with two wins) next to a different one.
C3_Witness ==
    /\ pc = "done"
    /\ \E k \in DOMAIN table : table[k].win = 2 /\ table[k].loss = 0
    /\ Len(obs) = 4

\* C4: between games, and when the aggregation has finished, the table is
\* symmetric: with every key (A, B) it has the key (B, A), and the win of one
\* is the loss of the other (so a mirror key (A, A) has win = loss).
C4_TableSymmetric ==
    stage = "idle" =>
        \A k \in DOMAIN table :
            /\ <<k[2], k[1]>> \in DOMAIN table
            /\ table[k].win = table[<<k[2], k[1]>>].loss
            /\ table[k].loss = table[<<k[2], k[1]>>].win

\* C4 witness: the finished table holds a mirror key with a game on it and a
\* key between two different decks.
C4_Witness ==
    /\ pc = "done"
    /\ \E k \in DOMAIN table : k[1] = k[2] /\ table[k].win = 1 /\ table[k].loss = 1
    /\ \E k \in DOMAIN table : k[1] # k[2] /\ table[k].win = 1

\* C5: between games, and when the aggregation has finished, the deck-vs-field
\* results (wins + losses) summed over every deck of the table are twice the
\* number of records normalised so far; skipped records add nothing.
C5_FieldTotalIsTwicePerGame ==
    (Aggregating /\ stage = "idle") =>
        FieldTotal(table, KnownDecks(table)) = 2 * Cardinality(GoodRecords(gi - 1))

\* C5 witness: the run has finished on two records of which one was skipped,
\* and the field total is 2.
C5_Witness ==
    /\ pc = "done"
    /\ Len(games) = 2
    /\ Cardinality(GoodRecords(2)) = 1
    /\ FieldTotal(table, KnownDecks(table)) = 2

\* C6: no step removes a key from the table or lowers a win or loss count;
\* a key appears only when a matchup with that key is observed, and the new
\* entry then holds zero plus that matchup's counts; the table starts empty.
C6_TableOnlyGrows ==
    /\ [](pc = "read" => table = EmptyTable)
    /\ [][/\ \A k \in DOMAIN table :
                /\ k \in DOMAIN table'
                /\ table'[k].win >= table[k].win
                /\ table'[k].loss >= table[k].loss
          /\ \A k \in DOMAIN table' \ DOMAIN table :
                /\ stage = "iter" /\ mi <= Len(vec)
                /\ k = Key(vec[mi])
                /\ table'[k].win = 0 + vec[mi].win
                /\ table'[k].loss = 0 + vec[mi].loss]_vars

\* C6 witness: an entry that was created by one game has just been added to
\* by a later game.
C6_Witness ==
    /\ pc = "aggregate" /\ stage = "iter" /\ gi = 2 /\ mi = 2
    /\ Key(vec[1]) \in DOMAIN table
    /\ table[Key(vec[1])].win + table[Key(vec[1])].loss = 2

\* C7: a deck text parses if and only if its color token is the text of a
\* color; when it parses and its archetype token is absent or the label of no
\* archetype, the deck has archetype Midrange and is the deck Deck::new builds
\* from that color and no archetype.
C7_StrictColorLenientArchetype ==
    op = "deck" =>
        /\ result.ok <=> ValidColorToken(ColorTokenOf(input))
        /\ (/\ result.ok
            /\ \/ ArchetypeTokenAbsent(input)
               \/ LabelOfNoArchetype(ArchetypeTokenOf(input)))
           => /\ Unwrap(result).archetype = "Midrange"
              /\ Unwrap(result) = DeckNew(ColorOfToken(ColorTokenOf(input)), None)

\* C7 witness: "Rb Foo" has been parsed: the color is valid, the archetype
\* token is the label of no archetype, and the parse succeeded.
C7_Witness ==
    /\ op = "deck"
    /\ input = <<"R", "b", " ", "F", "o", "o">>
    /\ result.ok
    /\ Unwrap(result) = [color_id |-> "Rb", archetype |-> "Midrange"]

\* C8: every letter-case variant of the text of a color parses to that color.
C8_ColorCaseInsensitive ==
    op = "color" =>
        \A c \in ColorIdentity :
            SameLetters(input, ColorSerialize(c)) => result = Ok(c)

\* C9: a color token, an archetype token or a deck text with spaces before or
\* after it parses to what the text without those spaces parses to.
C9_WhitespaceTolerated ==
    /\ op = "color" => result = ColorIdentityFromStr(Trim(input))
    /\ op = "archetype" => result = ArchetypeFromStr(Trim(input))
    /\ op = "deck" => result = DeckFromStr(Trim(input))

\* C10: the label of each of the nine archetypes parses, in any letter case,
\* to that archetype, and only a token that is the label of no archetype (the
\* empty token included) gives Midrange by default.
C10_EveryArchetypeRecognized ==
    op = "archetype" =>
        /\ \A a \in Archetype :
              SameLetters(input, ArchetypeLabel(a)) => result = Ok(a)
        /\ LabelOfNoArchetype(input) => result = Ok("Midrange")

====
